---------------------------- MODULE Spec2Model ----------------------------
(***************************************************************************)
(* Model of the memory resizing controller of src/controller/app.py:       *)
(* ResourceManager.run and what it calls (the two metrics clients, the     *)
(* Kubernetes API client and the scale-up / scale-down policy), and of    *)
(* the memory target of the load-generating service of src/app/app.py.     *)
(*                                                                         *)
(* Numbers.  Memory is in MiB.  A usage value is an exact fraction         *)
(* [n |-> numerator, d |-> denominator]; a request is a whole number of    *)
(* MiB.  The float thresholds and multipliers of the configuration are     *)
(* kept in tenths (0.8 is 8, 1.4 is 14, 2.5 is 25) and every comparison    *)
(* and rounding is done on exact integers; for the whole-MiB inputs the    *)
(* model draws, Python's float arithmetic gives the same results.          *)
(* Time is counted in ticks of 1/TicksPerSecond second.                    *)
(***************************************************************************)
EXTENDS Integers, Sequences, FiniteSets, TLC

VARIABLES
    env,            \* os.environ: which endpoint URLs are set
    now,            \* datetime.utcnow(), in ticks
    pc,             \* position of ResourceManager.run: "idle" or "reconciling"
    pod_spec,       \* API server: memory request/limit of every container
    annotations,    \* API server: resource-manager/last-update of every pod
    queue,          \* parsed_metrics items _process_resources has yet to visit
    tick,           \* what the current pass of _process_resources did so far
    last,           \* what the latest call of _evaluate_and_scale did
    passes,         \* how many passes of the loop have started
    steady,         \* the usage document held constant, and the resizes it led to
    probe,          \* one function of the clients applied to one input
    app             \* src/app/app.py: its globals and its monitor thread

vars == <<env, now, pc, pod_spec, annotations, queue, tick, last, passes,
          steady, probe, app>>

-----------------------------------------------------------------------------
(* Bounds of the model *)

TicksPerSecond == 2
MaxPasses == 3          \* passes of the loop that are followed
BlockSeconds == 570     \* a request without timeout that blocks this long

(* Configuration defaults, ResourceManager.__init__ (tenths where fractional) *)

Tenths == 10
scale_up_threshold == 8
scale_up_usage_multiplier == 14
scale_up_min_growth == 12
scale_down_threshold == 3
scale_down_usage_multiplier == 25
scale_down_min_diff == 2
min_request_memory == 100
cooldown_period_seconds == 600
metrics_fetch_interval == 30

-----------------------------------------------------------------------------
(* Helpers *)

Max(a, b) == IF a >= b THEN a ELSE b
Min(a, b) == IF a <= b THEN a ELSE b

Range(s) == {s[i] : i \in DOMAIN s}

\* Python 3 round(x) for x = num/den >= 0: to nearest, a tie to the even one.
PyRound(num, den) ==
    LET q == num \div den
        r == num % den
    IN  IF 2 * r < den THEN q
        ELSE IF 2 * r > den THEN q + 1
        ELSE IF q % 2 = 0 THEN q ELSE q + 1


-----------------------------------------------------------------------------
(* Strings.  A pod name is a sequence of characters, so that split('-'),    *)
(* join and startswith are computed on it.                                  *)

RECURSIVE Find(_, _, _)
\* s.find(c) from position i on: the first position holding c, 0 when none
Find(s, c, i) ==
    IF i > Len(s) THEN 0
    ELSE IF s[i] = c THEN i
    ELSE Find(s, c, i + 1)

RECURSIVE Split(_, _)
\* s.split(c)
Split(s, c) ==
    LET p == Find(s, c, 1)
    IN  IF p = 0 THEN <<s>>
        ELSE <<SubSeq(s, 1, p - 1)>> \o Split(SubSeq(s, p + 1, Len(s)), c)

RECURSIVE Join(_, _)
\* c.join(parts)
Join(parts, c) ==
    IF Len(parts) = 0 THEN <<>>
    ELSE IF Len(parts) = 1 THEN parts[1]
    ELSE parts[1] \o <<c>> \o Join(Tail(parts), c)

\* s.startswith(prefix)
StartsWith(s, prefix) ==
    /\ Len(prefix) <= Len(s)
    /\ SubSeq(s, 1, Len(prefix)) = prefix

-----------------------------------------------------------------------------
(* The cluster the controller runs against *)

Api1 == <<"a", "p", "i", "-", "1">>
WebAbc == <<"w", "e", "b", "-", "a", "b", "c", "1", "2", "3">>
WebAbcXyz == WebAbc \o <<"-", "x", "y", "z", "9", "8", "7">>

Key(ns, pod, cont) == [namespace |-> ns, pod |-> pod, container |-> cont]
Pod(ns, pod) == [namespace |-> ns, pod |-> pod]
PodOf(key) == Pod(key.namespace, key.pod)

KApp == Key("ns", Api1, "app")
KSide == Key("ns", Api1, "sidecar")
KWeb == Key("ns", WebAbcXyz, "app")       \* reports usage, not exported
KDecl == Key("ns", WebAbc, "app")         \* exported, reports no usage

ClusterKeys == {KApp, KSide, KWeb, KDecl}
ClusterPods == {PodOf(k) : k \in ClusterKeys}

\* A quantity string: its mantissa ("int", "float" or not a number) and suffix
Q(mant, suffix) == [kind |-> "int", mant |-> mant, suffix |-> suffix]
\* A mantissa with one decimal, given in tenths: Decimal(15, "u") is "1.5u"
Decimal(tenths, suffix) == [kind |-> "float", mant |-> tenths, suffix |-> suffix]
NotANumber(suffix) == [kind |-> "text", mant |-> 0, suffix |-> suffix]

\* The annotation string: "" , a %Y-%m-%dT%H:%M:%SZ timestamp, or other text
NoAnnotation == [fmt |-> "absent", secs |-> 0]
Malformed == [fmt |-> "other", secs |-> 0]
Timestamp(secs) == [fmt |-> "iso", secs |-> secs]

-----------------------------------------------------------------------------
(* KubeStateMetricsClient *)

MiBBytes == 1048576

ZeroDecl ==
    [requests_cpu_cores |-> 0, requests_mem_mib |-> 0,
     limits_cpu_cores |-> 0, limits_mem_mib |-> 0]

\* One line of the exposition text, as the four patterns see it: the metric
\* family, the labels, and the value token [\d\.eE\+\-]+ with its float value
Line(family, key, resource, val) ==
    [family |-> family, key |-> key, resource |-> resource, val |-> val,
     literal |-> TRUE]

\* A line whose value token float() rejects: "+" of "+Inf", "1.2.3", "1e"
NoLiteral(family, key, resource) ==
    [Line(family, key, resource, 0) EXCEPT !.literal = FALSE]

\* The lines the exporter writes for one container: a memory line only for a
\* request or limit that is set
LinesOf(key, spec) ==
    <<Line("kube_pod_container_resource_requests", key, "cpu", 1)>>
    \o (IF spec.request > 0
        THEN <<Line("kube_pod_container_resource_requests", key, "memory",
                    spec.request * MiBBytes)>>
        ELSE <<>>)
    \o (IF spec.limit > 0
        THEN <<Line("kube_pod_container_resource_limits", key, "memory",
                    spec.limit * MiBBytes)>>
        ELSE <<>>)

RECURSIVE ContainerLines(_, _)
ContainerLines(view, specs) ==
    IF view = <<>> THEN <<>>
    ELSE LinesOf(Head(view), specs[Head(view)]) \o ContainerLines(Tail(view), specs)

\* resp.text for the containers the exporter reports, in its order: a comment
\* line, the resource lines, a line of another metric family
Exposition(view, specs) ==
    <<Line("#", KDecl, "", 0)>>
    \o ContainerLines(view, specs)
    \o <<Line("kube_pod_status_ready", KDecl, "", 1)>>

\* data[(ns, pod, cont)][field] = val, after ensure_key
SetField(data, key, field, val) ==
    IF \E i \in DOMAIN data : data[i].key = key
    THEN [i \in DOMAIN data |->
            IF data[i].key = key
            THEN [data[i] EXCEPT !.decl = [@ EXCEPT ![field] = val]]
            ELSE data[i]]
    ELSE Append(data, [key |-> key, decl |-> [ZeroDecl EXCEPT ![field] = val]])

ParseLine(data, line) ==
    IF line.family = "#" \/ line.family = "" THEN data
    ELSE IF line.family = "kube_pod_container_resource_requests" /\ line.resource = "cpu"
    THEN SetField(data, line.key, "requests_cpu_cores", line.val)
    ELSE IF line.family = "kube_pod_container_resource_requests"
            /\ line.resource = "memory"
    THEN SetField(data, line.key, "requests_mem_mib", line.val \div MiBBytes)
    ELSE IF line.family = "kube_pod_container_resource_limits" /\ line.resource = "cpu"
    THEN SetField(data, line.key, "limits_cpu_cores", line.val)
    ELSE IF line.family = "kube_pod_container_resource_limits"
            /\ line.resource = "memory"
    THEN SetField(data, line.key, "limits_mem_mib", line.val \div MiBBytes)
    ELSE data

\* The line matches one of the four patterns
Matches(line) ==
    /\ line.family \in {"kube_pod_container_resource_requests",
                        "kube_pod_container_resource_limits"}
    /\ line.resource \in {"cpu", "memory"}

RECURSIVE ParseFrom(_, _, _)
\* for line in text.splitlines(): float(val) of a matching line is in no try;
\* the dict d after line i is worked out once and the loop goes on with it
ParseFrom(text, i, data) ==
    IF i > Len(text) THEN [raised |-> FALSE, data |-> data]
    ELSE IF Matches(text[i]) /\ ~text[i].literal
    THEN [raised |-> TRUE, data |-> <<>>]
    ELSE CHOOSE r \in {ParseFrom(text, i + 1, d) :
                          d \in {ParseLine(data, text[i])}} : TRUE

\* KubeStateMetricsClient.parse_metrics: the dict, in insertion order, or the
\* ValueError of float(val)
parse_metrics(text) == ParseFrom(text, 1, <<>>)

\* KubeStateMetricsClient.fetch_metrics: {} without URL or on a request error
kube_state_fetch_metrics(url_set, ok, text) ==
    IF ~url_set THEN [raised |-> FALSE, data |-> <<>>]
    ELSE IF ~ok THEN [raised |-> FALSE, data |-> <<>>]
    ELSE parse_metrics(text)

-----------------------------------------------------------------------------
(* MetricsServerClient *)

RECURSIVE GCD(_, _)
GCD(a, b) == IF b = 0 THEN a ELSE GCD(b, a % b)

\* The number n/d, in lowest terms
Raised == [raised |-> TRUE, value |-> [n |-> 0, d |-> 1]]
Value(n, d) ==
    [raised |-> FALSE, value |-> [n |-> n \div GCD(n, d), d |-> d \div GCD(n, d)]]

\* float(text) of a mantissa; int(text) accepts whole numbers only
FloatOf(s, mul, div) ==
    IF s.kind = "int" THEN Value(s.mant * mul, div)
    ELSE IF s.kind = "float" THEN Value(s.mant * mul, div * 10)
    ELSE Raised
IntOf(s, div) ==
    IF s.kind = "int" THEN Value(s.mant, div) ELSE Raised
OrZero(v) == IF v.raised THEN Value(0, 1) ELSE v

\* cpu_usage -> cores
parse_cpu(s) ==
    IF s.suffix = "n" THEN IntOf(s, 1000000000)
    ELSE IF s.suffix = "u" THEN IntOf(s, 1000000)
    ELSE IF s.suffix = "m" THEN FloatOf(s, 1, 1000)
    ELSE OrZero(IF s.suffix = "" THEN FloatOf(s, 1, 1) ELSE Raised)

\* Mutant: K and k are decimal kilobytes
parse_memory_decimal_K(s) ==
    IF s.suffix = "Ki" THEN FloatOf(s, 1, 1024)
    ELSE IF s.suffix = "Mi" THEN FloatOf(s, 1, 1)
    ELSE IF s.suffix = "Gi" THEN FloatOf(s, 1024, 1)
    ELSE IF s.suffix = "K" \/ s.suffix = "k" THEN FloatOf(s, 1000, MiBBytes)
    ELSE IF s.suffix = "M" THEN FloatOf(s, 1, 1)
    ELSE IF s.suffix = "G" THEN FloatOf(s, 1024, 1)
    ELSE OrZero(IF s.suffix = "" THEN FloatOf(s, 1, MiBBytes) ELSE Raised)

\* memory_usage -> MiB
parse_memory(s) ==
    IF s.suffix = "Ki" THEN FloatOf(s, 1, 1024)
    ELSE IF s.suffix = "Mi" THEN FloatOf(s, 1, 1)
    ELSE IF s.suffix = "Gi" THEN FloatOf(s, 1024, 1)
    ELSE IF s.suffix = "K" \/ s.suffix = "k" THEN FloatOf(s, 1, 1024)
    ELSE IF s.suffix = "M" THEN FloatOf(s, 1, 1)
    ELSE IF s.suffix = "G" THEN FloatOf(s, 1024, 1)
    ELSE OrZero(IF s.suffix = "" THEN FloatOf(s, 1, MiBBytes) ELSE Raised)

NoMatch == [found |-> FALSE, decl |-> ZeroDecl]
Match(decl) == [found |-> TRUE, decl |-> decl]

RECURSIVE FirstFrom(_, _, _, _)
\* for key, value in state_data.items(): the first key of the same namespace and
\* container whose pod name starts with base_name
FirstFrom(state_data, k, rsrc_key, base_name) ==
    IF k > Len(state_data) THEN NoMatch
    ELSE IF /\ state_data[k].key.namespace = rsrc_key.namespace
            /\ state_data[k].key.container = rsrc_key.container
            /\ StartsWith(state_data[k].key.pod, base_name)
         THEN Match(state_data[k].decl)
         ELSE FirstFrom(state_data, k + 1, rsrc_key, base_name)

\* Mutant: only the longest prefix is tried
PartialFrom_longest_only(state_data, rsrc_key, parts, i) ==
    IF i < 1 THEN NoMatch
    ELSE FirstFrom(state_data, 1, rsrc_key, Join(SubSeq(parts, 1, i), "-"))

RECURSIVE PartialFrom(_, _, _, _)
\* for i in range(len(parts) - 1, 0, -1)
PartialFrom(state_data, rsrc_key, parts, i) ==
    IF i < 1 THEN NoMatch
    ELSE LET m == FirstFrom(state_data, 1, rsrc_key, Join(SubSeq(parts, 1, i), "-"))
         IN  IF m.found THEN m
             ELSE PartialFrom(state_data, rsrc_key, parts, i - 1)

\* rsrc of parse_pod_metrics: the exact key, else the partial pod name match
find_rsrc(state_data, rsrc_key) ==
    IF \E k \in DOMAIN state_data : state_data[k].key = rsrc_key
    THEN Match((CHOOSE e \in Range(state_data) : e.key = rsrc_key).decl)
    ELSE IF Find(rsrc_key.pod, "-", 1) # 0
    THEN LET parts == Split(rsrc_key.pod, "-")
         IN  PartialFrom(state_data, rsrc_key, parts, Len(parts) - 1)
    ELSE NoMatch

\* result[rsrc_key] for one container of the usage document
ParseItem(item, state_data) ==
    LET cpu == parse_cpu(item.cpu)
        mem == parse_memory(item.memory)
        rsrc == find_rsrc(state_data, item.key).decl
    IN  [raised |-> cpu.raised \/ mem.raised,
         entry |-> [key |-> item.key,
                    cpu_usage |-> cpu.value,
                    memory_usage |-> mem.value,
                    requests_mem_mib |-> rsrc.requests_mem_mib,
                    limits_mem_mib |-> rsrc.limits_mem_mib]]

\* result[rsrc_key] = entry: a key already in the dict keeps its place
DictSet(result, entry) ==
    IF \E i \in DOMAIN result : result[i].key = entry.key
    THEN [i \in DOMAIN result |->
            IF result[i].key = entry.key THEN entry ELSE result[i]]
    ELSE Append(result, entry)

RECURSIVE ParseItemsFrom(_, _, _, _)
\* for pod in pod_metrics: the entry p of item i is worked out once
ParseItemsFrom(pod_metrics, state_data, i, result) ==
    IF i > Len(pod_metrics) THEN [raised |-> FALSE, result |-> result]
    ELSE CHOOSE r \in
           {IF p.raised THEN [raised |-> TRUE, result |-> <<>>]
            ELSE CHOOSE q \in {ParseItemsFrom(pod_metrics, state_data, i + 1, d) :
                                  d \in {DictSet(result, p.entry)}} : TRUE :
               p \in {ParseItem(pod_metrics[i], state_data)}} : TRUE

\* MetricsServerClient.parse_pod_metrics: the dict, in insertion order; the
\* ValueError of one container leaves the function, with no result
parse_pod_metrics(pod_metrics, state_data) ==
    ParseItemsFrom(pod_metrics, state_data, 1, <<>>)

-----------------------------------------------------------------------------
(* KubernetesApiClient *)

\* datetime.utcnow().strftime("%Y-%m-%dT%H:%M:%SZ"): whole seconds
strftime(t) == Timestamp(t \div TicksPerSecond)

\* datetime.strptime(s, "%Y-%m-%dT%H:%M:%SZ"): ValueError on any other text
strptime(s) ==
    IF s.fmt = "iso"
    THEN [raised |-> FALSE, time |-> s.secs * TicksPerSecond]
    ELSE [raised |-> TRUE, time |-> 0]

ContainerSpec(request, limit) == [request |-> request, limit |-> limit]

\* A whole number of MiB as the value n/1
Whole(x) == [n |-> x, d |-> 1]

\* f"{int(memory_request)}Mi": int() drops the fraction of a value >= 0
format_mib(value) == Q(value.n \div value.d, "Mi")

\* Mutant: the limit is left out of the payload and falls to 0
patch_body_request_only(memory_request) ==
    [requests |-> format_mib(memory_request), limits |-> Q(0, "Mi")]

\* patch_pod_resources: the "resources" of patch_body; memory_limit is None in
\* every call and defaults to memory_request
patch_body(memory_request) ==
    LET memory_limit == memory_request
    IN  [requests |-> format_mib(memory_request),
         limits |-> format_mib(memory_limit)]

\* Mutant: the patch replaces the resources by the requests alone
patched_spec_requests_alone(old, body) == ContainerSpec(body.requests.mant, 0)

\* The API server merging an accepted patch_body into the container: the two
\* memory fields take the payload's values
patched_spec(old, body) ==
    [old EXCEPT !.request = body.requests.mant, !.limit = body.limits.mant]

\* Mutant: a PATCH that failed is sent once more
sent_patches_retry(key, memory_request, ok) ==
    IF ok
    THEN <<[key |-> key, body |-> patch_body(Whole(memory_request)), ok |-> ok]>>
    ELSE <<[key |-> key, body |-> patch_body(Whole(memory_request)), ok |-> ok],
           [key |-> key, body |-> patch_body(Whole(memory_request)), ok |-> ok]>>

\* The PATCH requests one call of patch_pod_resources sends for the resources
sent_patches(key, memory_request, ok) ==
    <<[key |-> key, body |-> patch_body(Whole(memory_request)), ok |-> ok]>>

\* update_last_scale_annotation: the annotation after the PATCH, on success
updated_annotation(old, t, ok) ==
    IF ok THEN strftime(t) ELSE old

\* Mutant: the annotation is written before the status of the PATCH is looked at
annotation_before_status(old, t, patch_ok, annot_ok) == strftime(t)

\* patch_pod_resources, the annotation part: only after raise_for_status passed
annotation_after_patch(old, t, patch_ok, annot_ok) ==
    IF patch_ok THEN updated_annotation(old, t, annot_ok) ELSE old

\* get_pod_annotations(...).get("resource-manager/last-update"): {} on an error
get_last_update(stored, ok) ==
    IF ok THEN stored ELSE NoAnnotation

-----------------------------------------------------------------------------
(* ResourceManager: the policy *)

\* usage_ratio >= threshold, threshold in tenths
RatioAtLeast(memory_usage, memory_request, threshold) ==
    memory_usage.n * Tenths >= threshold * memory_request * memory_usage.d

\* usage_ratio <= threshold
RatioAtMost(memory_usage, memory_request, threshold) ==
    memory_usage.n * Tenths <= threshold * memory_request * memory_usage.d

\* Mutant: the minimum growth of the current request is forgotten
scale_up_request_by_usage(memory_usage, current_request) ==
    PyRound(memory_usage.n * scale_up_usage_multiplier, Tenths * memory_usage.d)

\* _scale_up: new_memory_request
scale_up_request(memory_usage, current_request) ==
    PyRound(Max(memory_usage.n * scale_up_usage_multiplier,
                current_request * scale_up_min_growth * memory_usage.d),
            Tenths * memory_usage.d)

\* Mutant: the minimum request is left out of the max
scale_down_request_no_floor(memory_usage) ==
    PyRound(memory_usage.n * scale_down_usage_multiplier, Tenths * memory_usage.d)

\* Mutant: the usage multiplier is left out of the scale-down
scale_down_request_plain_usage(memory_usage) ==
    PyRound(Max(memory_usage.n, min_request_memory * memory_usage.d),
            memory_usage.d)

\* _scale_down: new_memory_request
scale_down_request(memory_usage) ==
    PyRound(Max(memory_usage.n * scale_down_usage_multiplier,
                min_request_memory * Tenths * memory_usage.d),
            Tenths * memory_usage.d)

\* Mutant: any reduction counts as significant
change_is_positive(current_request, new_memory_request) ==
    current_request - new_memory_request > 0

\* _scale_down: change_percentage >= self.scale_down_min_diff
change_is_significant(current_request, new_memory_request) ==
    (current_request - new_memory_request) * Tenths
        >= scale_down_min_diff * current_request

\* Mutant: the comparison with cooldown_end_time is the wrong way round
in_cooldown_reversed(last_update, t) ==
    /\ last_update.fmt # "absent"
    /\ ~strptime(last_update).raised
    /\ t >= strptime(last_update).time + cooldown_period_seconds * TicksPerSecond

\* Mutant: the ValueError of strptime ends the call like an active cooldown
in_cooldown_or_malformed(last_update, t) ==
    /\ last_update.fmt # "absent"
    /\ \/ strptime(last_update).raised
       \/ t < strptime(last_update).time + cooldown_period_seconds * TicksPerSecond

\* _scale_down: the cooldown test that ends in "return"
in_cooldown(last_update, t) ==
    /\ last_update.fmt # "absent"
    /\ ~strptime(last_update).raised
    /\ t < strptime(last_update).time + cooldown_period_seconds * TicksPerSecond

Decision(kind, value, read) == [kind |-> kind, value |-> value, read |-> read]

\* _scale_down: what it decides from the annotation it read
scale_down(memory_usage, current_request, last_update, t) ==
    IF in_cooldown(last_update, t) THEN Decision("cooldown", 0, TRUE)
    ELSE LET new_memory_request == scale_down_request(memory_usage)
         IN  IF change_is_significant(current_request, new_memory_request)
             THEN Decision("down", new_memory_request, TRUE)
             ELSE Decision("small", 0, TRUE)

\* Mutant: the cooldown is tested before either branch
evaluate_cooldown_first(memory_usage, memory_request, last_update, t) ==
    IF memory_request <= 0 THEN Decision("skip", 0, FALSE)
    ELSE IF in_cooldown(last_update, t) THEN Decision("cooldown", 0, TRUE)
    ELSE IF RatioAtLeast(memory_usage, memory_request, scale_up_threshold)
    THEN Decision("up", scale_up_request(memory_usage, memory_request), TRUE)
    ELSE IF RatioAtMost(memory_usage, memory_request, scale_down_threshold)
    THEN scale_down(memory_usage, memory_request, last_update, t)
    ELSE Decision("none", 0, TRUE)

\* Mutant: the test of memory_request <= 0 is missing
evaluate_without_skip(memory_usage, memory_request, last_update, t) ==
    IF RatioAtLeast(memory_usage, memory_request, scale_up_threshold)
    THEN Decision("up", scale_up_request(memory_usage, memory_request), FALSE)
    ELSE IF RatioAtMost(memory_usage, memory_request, scale_down_threshold)
    THEN scale_down(memory_usage, memory_request, last_update, t)
    ELSE Decision("none", 0, FALSE)

\* _evaluate_and_scale: which branch it takes and the value it patches
evaluate(memory_usage, memory_request, last_update, t) ==
    IF memory_request <= 0 THEN Decision("skip", 0, FALSE)
    ELSE IF RatioAtLeast(memory_usage, memory_request, scale_up_threshold)
    THEN Decision("up", scale_up_request(memory_usage, memory_request), FALSE)
    ELSE IF RatioAtMost(memory_usage, memory_request, scale_down_threshold)
    THEN scale_down(memory_usage, memory_request, last_update, t)
    ELSE Decision("none", 0, FALSE)

\* Mutant: the patch call of _scale_down is outside the test of the change
Patches_unindented(decision) == decision.kind \in {"up", "down", "small"}

\* The decisions that call patch_pod_resources
Patches(decision) == decision.kind \in {"up", "down"}

-----------------------------------------------------------------------------
(* What the environment can answer *)

Item(key, cpu, memory) == [key |-> key, cpu |-> cpu, memory |-> memory]

AppMemory == {Q(0, ""), Q(25, "Mi"), Q(41, "Mi"), Q(80, "Mi"), Q(87040, "Ki")}
SideMemory == {Q(0, ""), Q(60, "M")}
WebMemory == Q(104857600, "")

Items(web_cpu, side_memory, app_memory) ==
    <<Item(KWeb, web_cpu, WebMemory),
      Item(KSide, Q(5000000, "n"), side_memory),
      Item(KApp, Q(100, "m"), app_memory)>>

\* "items" of the usage document: one pod entry per container, keys distinct;
\* every quantity well formed, or one of them with a mantissa that is no number
MetricsItems ==
    {Items(Q(250, "m"), b, a) : a \in AppMemory, b \in SideMemory}
    \cup {Items(NotANumber("n"), Q(60, "M"), Q(87040, "Ki")),
          Items(Q(250, "m"), Q(60, "M"), NotANumber("Mi")),
          Items(Q(250, "m"), NotANumber(""), Q(87040, "Ki")),
          Items(Q(250, "m"), Q(60, "M"), Q(25, "Mi"))
              \o <<Item(KApp, Q(100, "m"), Q(85, "Mi"))>>}

\* What requests.get of the usage endpoint gives: a request error, a body that
\* is no JSON, the document {} or a document with "items"
MetricsResponses ==
    {[status |-> st, items |-> <<>>] : st \in {"error", "badjson", "empty", "ok"}}
    \cup {[status |-> "ok", items |-> it] : it \in MetricsItems}

\* What requests.get of the exporter gives: a request error, or the text for
\* the containers it reports, in its order
KsmResponses ==
    {[ok |-> FALSE, view |-> <<>>],
     [ok |-> TRUE, view |-> <<KApp, KSide, KDecl>>],
     [ok |-> TRUE, view |-> <<KApp, KSide>>]}

Ticks(seconds) == seconds * TicksPerSecond

\* How long the two fetches of a pass take: no time, or a request that blocks
Delays == {0, Ticks(BlockSeconds)}

-----------------------------------------------------------------------------
(* ResourceManager: the loop *)

\* No usage document is held and no resize recorded
NoSteady == [items |-> <<>>, resized |-> <<>>]

\* No function is being applied
NoProbe == [op |-> "none"]

\* The load-generating service is not running
NoApp == [monitor |-> "off"]

NoTick ==
    [result |-> "start", fetch |-> "start", observed |-> {}, unparseable |-> {},
     evaluated |-> {}, sent |-> <<>>]

NoLast ==
    [key |-> KDecl, memory_usage |-> [n |-> 0, d |-> 1], memory_request |-> 0,
     decision |-> Decision("start", 0, FALSE), seen |-> NoAnnotation,
     before |-> NoAnnotation, patch_ok |-> FALSE, annot_ok |-> FALSE]

Init ==
    /\ env \in [KUBE_STATE_METRICS_URL : BOOLEAN, METRICS_SERVER_URL : BOOLEAN]
    /\ now \in {0, 1}
    /\ pc = "idle"
    /\ passes = 0
    /\ \E b \in {0, 200} :
         pod_spec = [k \in ClusterKeys |->
                        IF k = KApp THEN ContainerSpec(100, 128)
                        ELSE IF k = KSide THEN ContainerSpec(b, b)
                        ELSE ContainerSpec(200, 200)]
    /\ \E x \in {NoAnnotation, Malformed, Timestamp(0)} :
         annotations = [p \in ClusterPods |->
                          IF p = PodOf(KApp) THEN x ELSE NoAnnotation]
    /\ queue = <<>>
    /\ tick = NoTick
    /\ last = NoLast
    /\ steady = NoSteady
    /\ probe = NoProbe
    /\ app = NoApp

\* MetricsServerClient.fetch_metrics: None, an exception of response.json(),
\* or the document
metrics_fetch_metrics(url_set, resp) ==
    IF ~url_set THEN [kind |-> "none", items |-> <<>>]
    ELSE IF resp.status = "error" THEN [kind |-> "none", items |-> <<>>]
    ELSE IF resp.status = "badjson" THEN [kind |-> "raise", items |-> <<>>]
    ELSE IF resp.status = "empty" THEN [kind |-> "none", items |-> <<>>]
    ELSE [kind |-> "doc", items |-> resp.items]

\* _process_resources up to the loop over parsed_metrics: how it ends
\* ("nodata": return, "exception": raised into run) or the items to visit
process_resources(state_data, metrics_data) ==
    IF state_data.raised THEN [result |-> "exception", parsed |-> <<>>]
    ELSE IF metrics_data.kind = "none" THEN [result |-> "nodata", parsed |-> <<>>]
    ELSE IF metrics_data.kind = "raise" THEN [result |-> "exception", parsed |-> <<>>]
    ELSE IF metrics_data.items = <<>> THEN [result |-> "nodata", parsed |-> <<>>]
    ELSE LET p == parse_pod_metrics(metrics_data.items, state_data.data)
         IN  IF p.raised THEN [result |-> "exception", parsed |-> <<>>]
             ELSE [result |-> "running", parsed |-> p.result]

\* Mutant: the exception of a pass is not caught and ends run
after_pass_uncaught(result) ==
    IF result = "exception" THEN "terminated" ELSE "idle"

\* run: where the loop is once _process_resources has ended in this way; the
\* except clause logs any exception
after_pass(result) == "idle"

\* The containers of the usage document whose own quantities raise
Unparseable(items) ==
    {items[i].key : i \in {j \in DOMAIN items :
                              parse_cpu(items[j].cpu).raised
                              \/ parse_memory(items[j].memory).raised}}

\* run: the next pass starts; both fetches and parse_pod_metrics
StartPass(exporter, responses, delays) ==
    /\ pc = "idle"
    /\ \E ksm \in exporter, resp \in responses, delay \in delays :
         \E text \in {Exposition(ksm.view, pod_spec)},
            metrics_data \in {metrics_fetch_metrics(env.METRICS_SERVER_URL, resp)} :
           \E state_data \in
                 {kube_state_fetch_metrics(env.KUBE_STATE_METRICS_URL, ksm.ok,
                                           text)} :
           \E p \in {process_resources(state_data, metrics_data)} :
             /\ queue' = p.parsed
             /\ tick' = [result |-> p.result,
                         fetch |-> IF env.METRICS_SERVER_URL THEN resp.status
                                   ELSE "unset",
                         observed |-> {metrics_data.items[i].key :
                                          i \in DOMAIN metrics_data.items},
                         unparseable |-> Unparseable(metrics_data.items),
                         evaluated |-> {},
                         sent |-> <<>>]
             /\ now' = now + delay
    /\ pc' = "reconciling"
    /\ last' = NoLast
    /\ UNCHANGED <<env, pod_spec, annotations, steady, probe, app>>

Reconcile ==
    /\ passes < MaxPasses
    /\ passes' = passes + 1
    /\ StartPass(KsmResponses, MetricsResponses, Delays)

\* The answers of the API server to the requests one call sends: a request
\* that is not sent has no answer (FALSE)
Answers(sent) == IF sent THEN BOOLEAN ELSE {FALSE}

\* _process_resources: one turn of the loop, _evaluate_and_scale of one container
EvaluateStep ==
    /\ pc = "reconciling"
    /\ queue # <<>>
    /\ LET metrics == Head(queue)
           key == metrics.key
           pod == PodOf(key)
           reads == evaluate(metrics.memory_usage, metrics.requests_mem_mib,
                             NoAnnotation, now).read
       IN  \E get_ok \in Answers(reads) :
             \E last_update \in {get_last_update(annotations[pod], get_ok)} :
               \E d \in {evaluate(metrics.memory_usage, metrics.requests_mem_mib,
                                  last_update, now)} :
                 \E patch_ok \in Answers(Patches(d)) :
                   \E annot_ok \in Answers(patch_ok) :
                     /\ pod_spec' =
                            IF patch_ok
                            THEN [pod_spec EXCEPT
                                    ![key] = patched_spec(
                                                 @, patch_body(Whole(d.value)))]
                            ELSE pod_spec
                     /\ annotations' =
                            IF Patches(d)
                            THEN [annotations EXCEPT
                                    ![pod] = annotation_after_patch(
                                                 @, now, patch_ok, annot_ok)]
                            ELSE annotations
                     /\ tick' = [tick EXCEPT
                                   !.evaluated = @ \cup {key},
                                   !.sent = IF Patches(d)
                                            THEN @ \o sent_patches(key, d.value,
                                                                   patch_ok)
                                            ELSE @]
                     /\ last' = [key |-> key,
                                 memory_usage |-> metrics.memory_usage,
                                 memory_request |-> metrics.requests_mem_mib,
                                 decision |-> d,
                                 seen |-> IF d.read THEN last_update
                                          ELSE NoAnnotation,
                                 before |-> annotations[pod],
                                 patch_ok |-> patch_ok,
                                 annot_ok |-> annot_ok]
    /\ queue' = Tail(queue)
    /\ UNCHANGED <<env, now, pc, passes, probe, app>>

EvaluateAndScale == EvaluateStep /\ UNCHANGED steady

\* run: the pass is over (returned, or its exception was logged); time.sleep
EndPass(seconds) ==
    /\ pc = "reconciling"
    /\ queue = <<>>
    /\ pc' = after_pass(tick.result)
    /\ now' = now + Ticks(seconds)
    /\ tick' = [NoTick EXCEPT !.result = IF tick.result = "running" THEN "done"
                                         ELSE tick.result]
    /\ last' = NoLast
    /\ UNCHANGED <<env, pod_spec, annotations, queue, passes, steady, probe,
                   app>>

Sleep == EndPass(metrics_fetch_interval)

Next == Reconcile \/ EvaluateAndScale \/ Sleep

Spec == Init /\ [][Next]_vars

-----------------------------------------------------------------------------
(* The loop followed without end: the clock is followed for MaxPasses      *)
(* passes and stands still afterwards.  The thread of run is the only one, *)
(* every request and sleep of a pass returns, so a step that is possible   *)
(* is taken.                                                               *)

InitLive ==
    /\ Init
    /\ env = [KUBE_STATE_METRICS_URL |-> TRUE, METRICS_SERVER_URL |-> TRUE]
    /\ now = 0
    /\ pod_spec[KSide].request = 200
    /\ annotations[PodOf(KApp)] = NoAnnotation

\* The answers of the usage endpoint followed here: each way a pass can end
LiveResponses ==
    {r \in MetricsResponses :
        r.items \in {<<>>,
                     Items(Q(250, "m"), Q(60, "M"), Q(87040, "Ki")),
                     Items(Q(250, "m"), Q(0, ""), Q(25, "Mi")),
                     Items(NotANumber("n"), Q(60, "M"), Q(87040, "Ki"))}}

ReconcileOn ==
    /\ passes' = Min(passes + 1, MaxPasses)
    /\ StartPass(KsmResponses, LiveResponses, IF passes < MaxPasses THEN Delays ELSE {0})

SleepOn == EndPass(IF passes < MaxPasses THEN metrics_fetch_interval ELSE 0)

NextLive == ReconcileOn \/ EvaluateAndScale \/ SleepOn

SpecLive == InitLive /\ [][NextLive]_vars /\ WF_vars(NextLive)

-----------------------------------------------------------------------------
(* The loop under constant usage: one container whose usage endpoint gives  *)
(* the same document in every pass, the exporter reporting every accepted   *)
(* patch in the next pass.  The resizes decided are recorded in order.      *)

SteadyUsage == {0, 1, 2, 3, 30, 39, 40, 41, 79, 80, 81, 100, 150, 300}
SteadyRequest == {1, 2, 3, 100, 110, 125, 200, 500, 1000}

SteadyItems(u) == <<Item(KApp, Q(100, "m"), Q(u, "Mi"))>>

InitSteady ==
    /\ env = [KUBE_STATE_METRICS_URL |-> TRUE, METRICS_SERVER_URL |-> TRUE]
    /\ now = 0
    /\ pc = "idle"
    /\ passes = 0
    /\ \E r \in SteadyRequest :
         pod_spec = [k \in ClusterKeys |->
                        IF k = KApp THEN ContainerSpec(r, r)
                        ELSE ContainerSpec(200, 200)]
    /\ annotations = [p \in ClusterPods |-> NoAnnotation]
    /\ queue = <<>>
    /\ tick = NoTick
    /\ last = NoLast
    /\ \E u \in SteadyUsage : steady = [items |-> SteadyItems(u), resized |-> <<>>]
    /\ probe = NoProbe
    /\ app = NoApp

\* The exporter answers and reports every container
SteadyExporter == {[ok |-> TRUE, view |-> <<KApp, KSide, KDecl>>]}

SteadyReconcile ==
    /\ passes < MaxPasses
    /\ passes' = passes + 1
    /\ StartPass(SteadyExporter, {[status |-> "ok", items |-> steady.items]},
                 Delays)

\* The call of _evaluate_and_scale, and the record of the resize it decided
SteadyEvaluate ==
    /\ EvaluateStep
    /\ steady' =
         [steady EXCEPT !.resized =
            IF Patches(last'.decision)
            THEN Append(@, [key |-> last'.key,
                            kind |-> last'.decision.kind,
                            value |-> last'.decision.value,
                            ok |-> last'.patch_ok])
            ELSE @]

NextSteady == SteadyReconcile \/ SteadyEvaluate \/ Sleep

SpecSteady == InitSteady /\ [][NextSteady]_vars

-----------------------------------------------------------------------------
(* The loop with its resizes timed: both endpoints answer, the usage of the *)
(* containers changes from pass to pass, and any request to the API server  *)
(* may fail.  Every resource patch accepted is recorded with the time it    *)
(* was sent at, the answer to its annotation patch, and the annotation the  *)
(* call had read.                                                           *)

InitPaced ==
    /\ Init
    /\ env = [KUBE_STATE_METRICS_URL |-> TRUE, METRICS_SERVER_URL |-> TRUE]
    /\ pod_spec[KSide].request = 200
    /\ annotations[PodOf(KApp)] = NoAnnotation

\* The usage documents followed here: the application idle or near its request
PacedResponses ==
    {[status |-> "ok", items |-> Items(Q(250, "m"), b, a)] :
        a \in {Q(0, ""), Q(87040, "Ki")}, b \in SideMemory}

\* The fetches take no time, or block until one tick before the pass would
\* start a whole cooldown after the start of the one before
PacedDelays == {0, Ticks(BlockSeconds) - 1}

PacedReconcile ==
    /\ passes < MaxPasses
    /\ passes' = passes + 1
    /\ StartPass(SteadyExporter, PacedResponses, PacedDelays)

\* The call of _evaluate_and_scale, and the record of the patch accepted
PacedEvaluate ==
    /\ EvaluateStep
    /\ steady' =
         [steady EXCEPT !.resized =
            IF last'.patch_ok
            THEN Append(@, [key |-> last'.key,
                            kind |-> last'.decision.kind,
                            value |-> last'.decision.value,
                            ok |-> last'.patch_ok,
                            annot_ok |-> last'.annot_ok,
                            seen |-> last'.seen,
                            at |-> now])
            ELSE @]

NextPaced == PacedReconcile \/ PacedEvaluate \/ Sleep

SpecPaced == InitPaced /\ [][NextPaced]_vars

-----------------------------------------------------------------------------
(* The loop followed without end while every request to the API server is   *)
(* answered.  The clock is kept relative: once utcnow() has reached Horizon *)
(* it is held there, and the timestamps stored in the annotations are moved *)
(* back by the time that passes instead, down to 0 at most.  A timestamp at *)
(* 0 is a whole cooldown old or older, and the cooldown test gives the same *)
(* answer for every such age.                                               *)

Horizon == Ticks(cooldown_period_seconds)

\* The annotation as it reads when the clock has been moved back by shift
MovedBack(annotation, shift) ==
    IF annotation.fmt = "iso"
    THEN Timestamp(Max(0, annotation.secs - shift \div TicksPerSecond))
    ELSE annotation

\* _evaluate_and_scale of one container, each request it sends answered
EvaluateAnswered ==
    /\ EvaluateStep
    /\ Patches(last'.decision) => last'.patch_ok /\ last'.annot_ok
    /\ last'.decision.read => last'.seen = last'.before
    /\ UNCHANGED steady

\* run: the pass is over; time.sleep(metrics_fetch_interval)
SleepOnward ==
    /\ pc = "reconciling"
    /\ queue = <<>>
    /\ pc' = after_pass(tick.result)
    /\ LET t == now + Ticks(metrics_fetch_interval)
       IN  /\ now' = Min(t, Horizon)
           /\ annotations' = [p \in ClusterPods |->
                                 MovedBack(annotations[p], t - Min(t, Horizon))]
    /\ tick' = [NoTick EXCEPT !.result = IF tick.result = "running" THEN "done"
                                         ELSE tick.result]
    /\ last' = NoLast
    /\ UNCHANGED <<env, pod_spec, queue, passes, steady, probe, app>>

\* The next pass under constant usage: the document held in steady.items
ReconcileSteadily ==
    /\ passes' = Min(passes + 1, MaxPasses)
    /\ StartPass(SteadyExporter, {[status |-> "ok", items |-> steady.items]}, {0})

NextSettle == ReconcileSteadily \/ EvaluateAnswered \/ SleepOnward

SpecSettle == InitSteady /\ [][NextSettle]_vars /\ WF_vars(NextSettle)

\* Two containers of one pod: the application idle with a request of 200,
\* the sidecar with a request of 100 and a usage that changes
InitSiblings ==
    /\ env = [KUBE_STATE_METRICS_URL |-> TRUE, METRICS_SERVER_URL |-> TRUE]
    /\ now = 0
    /\ pc = "idle"
    /\ passes = 0
    /\ pod_spec = [k \in ClusterKeys |->
                      IF k = KSide THEN ContainerSpec(100, 100)
                      ELSE ContainerSpec(200, 200)]
    /\ annotations = [p \in ClusterPods |-> NoAnnotation]
    /\ queue = <<>>
    /\ tick = NoTick
    /\ last = NoLast
    /\ steady = NoSteady
    /\ probe = NoProbe
    /\ app = NoApp

\* The usage documents: the sidecar first, idle or above its request, then
\* the application, idle
SiblingResponses ==
    {[status |-> "ok",
      items |-> <<Item(KSide, Q(5000000, "n"), b), Item(KApp, Q(100, "m"), Q(0, ""))>>] :
        b \in {Q(0, ""), Q(120, "Mi")}}

ReconcileSiblings ==
    /\ passes' = Min(passes + 1, MaxPasses)
    /\ StartPass(SteadyExporter, SiblingResponses, {0})

NextSiblings == ReconcileSiblings \/ EvaluateAnswered \/ SleepOnward

SpecSiblings == InitSiblings /\ [][NextSiblings]_vars /\ WF_vars(NextSiblings)

-----------------------------------------------------------------------------
(* The load-generating service of src/app/app.py: the global memory_load_mb, *)
(* written by the update_resources handler and by resource_monitor_thread.   *)
(* The two run in different threads and no lock is held, so the monitor's    *)
(* statement memory_load_mb = min(memory_load_mb, current_memory * 0.9) is   *)
(* a load, a call and a store between which the handler may run.  The load   *)
(* threads only read the globals and are left out.  Memory is in whole MB.   *)

MAX_MEMORY_PERCENT == 85

\* The form fields of a request, psutil's readings of the process and the
\* system: rss in MB, used memory in percent, total memory in MB
CpuFormValues == {-5, 50, 150}
MemoryFormValues == {0, 100, 1000, 9000}
RssValues == {500, 1000}
PercentValues == {80, 95}
TotalValues == {1000, 16000}

InitApp ==
    /\ env = [KUBE_STATE_METRICS_URL |-> TRUE, METRICS_SERVER_URL |-> TRUE]
    /\ now = 0
    /\ pc = "idle"
    /\ passes = 0
    /\ pod_spec = [k \in ClusterKeys |-> ContainerSpec(200, 200)]
    /\ annotations = [p \in ClusterPods |-> NoAnnotation]
    /\ queue = <<>>
    /\ tick = NoTick
    /\ last = NoLast
    /\ steady = NoSteady
    /\ probe = NoProbe
    /\ app = [cpu_load |-> 0, memory_load_mb |-> 0,
              monitor |-> "sample", current_memory |-> 0,
              old_memory_load |-> 0, loaded |-> 0,
              writer |-> "start", replaced |-> 0]

AppStep(next) ==
    /\ app' = next
    /\ UNCHANGED <<env, now, pc, pod_spec, annotations, queue, tick, last,
                   passes, steady, probe>>

\* update_resources: the clamped form values are stored, the memory target
\* capped at the safe limit
update_resources ==
    /\ app.monitor # "off"
    /\ \E cpu \in CpuFormValues, memory \in MemoryFormValues, total \in TotalValues :
         LET new_cpu_load == Max(0, Min(cpu, 100))
             new_memory_load_mb == Max(0, Min(memory, 8 * 1024))
             safe_limit_mb == (total * MAX_MEMORY_PERCENT) \div 100
         IN  app' = [app EXCEPT
                       !.cpu_load = new_cpu_load,
                       !.memory_load_mb = IF new_memory_load_mb > safe_limit_mb
                                          THEN safe_limit_mb
                                          ELSE new_memory_load_mb,
                       !.writer = "handler",
                       !.replaced = app.memory_load_mb]
    /\ UNCHANGED <<env, now, pc, pod_spec, annotations, queue, tick, last,
                   passes, steady, probe>>

\* resource_monitor_thread: the readings of psutil and the test of the pressure
MonitorSample ==
    /\ app.monitor = "sample"
    /\ \E rss \in RssValues, percent \in PercentValues :
         AppStep([app EXCEPT !.current_memory = rss,
                             !.monitor = IF percent > 90 THEN "old" ELSE "sleep"])

\* old_memory_load = memory_load_mb
MonitorOld ==
    /\ app.monitor = "old"
    /\ AppStep([app EXCEPT !.old_memory_load = app.memory_load_mb,
                           !.monitor = "load"])

\* min(memory_load_mb, current_memory * 0.9): the global is loaded
MonitorLoad ==
    /\ app.monitor = "load"
    /\ AppStep([app EXCEPT !.loaded = app.memory_load_mb, !.monitor = "store"])

\* memory_load_mb = min(...): the result is stored
MonitorStore ==
    /\ app.monitor = "store"
    /\ AppStep([app EXCEPT
                  !.memory_load_mb = Min(app.loaded, (app.current_memory * 9) \div 10),
                  !.writer = "monitor",
                  !.replaced = app.memory_load_mb,
                  !.monitor = "sleep"])

\* time.sleep(5), and the next turn of the loop
MonitorSleep ==
    /\ app.monitor = "sleep"
    /\ AppStep([app EXCEPT !.monitor = "sample"])

NextApp ==
    \/ update_resources
    \/ MonitorSample
    \/ MonitorOld
    \/ MonitorLoad
    \/ MonitorStore
    \/ MonitorSleep

SpecApp == InitApp /\ [][NextApp]_vars

-----------------------------------------------------------------------------
(* The functions of the clients, each applied to one input: the declaration *)
(* lookup and the quantity parsing of parse_pod_metrics, and the formatting *)
(* of patch_pod_resources.                                                  *)

Web == <<"w", "e", "b">>
KServer == Key("ns", Web \o <<"s", "e", "r", "v", "e", "r", "-", "1">>, "app")
KZzz == Key("ns", Web \o <<"-", "z", "z", "z">>, "app")
KOtherNs == Key("other", WebAbc, "app")
KDeclSide == Key("ns", WebAbc, "sidecar")
KBare == Key("ns", Web, "app")

\* The keys the exporter may report, each with a request of its own
Declared == <<KDecl, KServer, KZzz, KOtherNs, KDeclSide, KWeb>>
DeclOf(i) ==
    [key |-> Declared[i],
     decl |-> [ZeroDecl EXCEPT !.requests_mem_mib = 100 * i, !.limits_mem_mib = 100 * i]]

MaxDeclared == 3

\* state_data: up to MaxDeclared of these keys, in any order
StateData ==
    {[k \in DOMAIN s |-> DeclOf(s[k])] :
        s \in {q \in UNION {[1..n -> DOMAIN Declared] : n \in 0..MaxDeclared} :
                  \A a, b \in DOMAIN q : q[a] = q[b] => a = b}}

CpuStrings ==
    {Q(0, s) : s \in {"n", "u", "m", ""}}
    \cup {Q(250, s) : s \in {"n", "u", "m", ""}}
    \cup {Decimal(15, s) : s \in {"n", "u", "m", ""}}
    \cup {NotANumber(s) : s \in {"n", "u", "m", ""}}

MemorySuffixes == {"Ki", "Mi", "Gi", "K", "k", "M", "G", "", "Ti"}
MemoryStrings ==
    {Q(1, "Gi"), Q(2048, "Ki"), Q(104857600, ""), Q(1536, "k"), Q(3, "G")}
    \cup {Q(0, s) : s \in MemorySuffixes}
    \cup {Q(128, s) : s \in MemorySuffixes}
    \cup {Decimal(15, s) : s \in MemorySuffixes}
    \cup {NotANumber(s) : s \in MemorySuffixes}

MaxLines == 3

\* Lines an exposition text is made of: a comment, a blank line, another
\* metric family, the four resource lines of one container, one of another,
\* and a resource line whose value is no float literal
ExpositionLines ==
    {Line("#", KDecl, "", 0),
     Line("", KDecl, "", 0),
     Line("kube_pod_status_ready", KDecl, "", 1),
     Line("kube_pod_container_resource_requests", KDecl, "cpu", 2),
     Line("kube_pod_container_resource_requests", KDecl, "memory", 100 * MiBBytes),
     Line("kube_pod_container_resource_limits", KDecl, "cpu", 4),
     Line("kube_pod_container_resource_limits", KDecl, "memory", 300 * MiBBytes),
     Line("kube_pod_container_resource_requests", KDeclSide, "memory",
          50 * MiBBytes),
     NoLiteral("kube_pod_container_resource_requests", KDecl, "memory")}

\* resp.text: up to MaxLines of these lines
ExpositionTexts == UNION {[1..n -> ExpositionLines] : n \in 0..MaxLines}

\* Values of memory_request, in tenths of a MiB
MemoryTenths == {0, 4, 5, 6, 10, 15, 25, 994, 995, 996, 997, 1000, 1004, 1005, 1006}

Idle(op) ==
    [op |-> op, done |-> FALSE,
     state_data |-> <<>>, rsrc_key |-> KBare, quantity |-> Q(0, ""),
     value |-> Whole(0), text |-> <<>>,
     matched |-> NoMatch, parsed |-> Value(0, 1), formatted |-> Q(0, "Mi"),
     declared |-> [raised |-> FALSE, data |-> <<>>]]

ProbeInputs ==
    {[Idle("lookup") EXCEPT !.state_data = sd, !.rsrc_key = k] :
        sd \in StateData, k \in {KWeb, KBare}}
    \cup {[Idle("cpu") EXCEPT !.quantity = q] : q \in CpuStrings}
    \cup {[Idle("memory") EXCEPT !.quantity = q] : q \in MemoryStrings}
    \cup {[Idle("exposition") EXCEPT !.text = x] : x \in ExpositionTexts}
    \cup {[Idle("format") EXCEPT !.value = [n |-> x, d |-> Tenths]] :
            x \in MemoryTenths}

InitProbe ==
    /\ env = [KUBE_STATE_METRICS_URL |-> TRUE, METRICS_SERVER_URL |-> TRUE]
    /\ now = 0
    /\ pc = "idle"
    /\ passes = 0
    /\ pod_spec = [k \in ClusterKeys |-> ContainerSpec(200, 200)]
    /\ annotations = [p \in ClusterPods |-> NoAnnotation]
    /\ queue = <<>>
    /\ tick = NoTick
    /\ last = NoLast
    /\ steady = NoSteady
    /\ probe \in ProbeInputs
    /\ app = NoApp

Apply(op, result) ==
    /\ probe.op = op
    /\ ~probe.done
    /\ probe' = result
    /\ UNCHANGED <<env, now, pc, pod_spec, annotations, queue, tick, last,
                   passes, steady, app>>

\* parse_pod_metrics: rsrc for one usage key
Lookup ==
    Apply("lookup", [probe EXCEPT !.done = TRUE,
                       !.matched = find_rsrc(probe.state_data, probe.rsrc_key)])

\* parse_pod_metrics: cpu_value of one usage string
ParseCpu ==
    Apply("cpu", [probe EXCEPT !.done = TRUE, !.parsed = parse_cpu(probe.quantity)])

\* parse_pod_metrics: memory_value of one usage string
ParseMemory ==
    Apply("memory", [probe EXCEPT !.done = TRUE,
                       !.parsed = parse_memory(probe.quantity)])

\* patch_pod_resources: memory_request_str of one value
FormatMemory ==
    Apply("format", [probe EXCEPT !.done = TRUE,
                       !.formatted = patch_body(probe.value).requests])

\* KubeStateMetricsClient.fetch_metrics of one answered request
ParseExposition ==
    Apply("exposition",
          [probe EXCEPT !.done = TRUE,
             !.declared = kube_state_fetch_metrics(TRUE, TRUE, probe.text)])

NextProbe == Lookup \/ ParseCpu \/ ParseMemory \/ FormatMemory \/ ParseExposition

SpecProbe == InitProbe /\ [][NextProbe]_vars

-----------------------------------------------------------------------------
(* What the claims speak of, read from the record of the latest call of    *)
(* _evaluate_and_scale and of the current pass                             *)

Evaluated == last.decision.kind # "start"
Usage == last.memory_usage
Request == last.memory_request

\* The PATCH requests of this pass for the container evaluated last
SentForLast == {i \in DOMAIN tick.sent : tick.sent[i].key = last.key}

\* One request was sent for it, asking for value MiB
SentValue(value) ==
    /\ Cardinality(SentForLast) = 1
    /\ \A i \in SentForLast : tick.sent[i].body.requests = Q(value, "Mi")

\* usage / request >= scaleUpThreshold, and <= scaleDownThreshold
AtScaleUp ==
    /\ Request > 0
    /\ Usage.n * Tenths >= scale_up_threshold * Request * Usage.d
AtScaleDown ==
    /\ Request > 0
    /\ ~AtScaleUp
    /\ Usage.n * Tenths <= scale_down_threshold * Request * Usage.d

\* round(x) for x = num/den that is no tie: floor(x + 1/2)
RoundNearest(num, den) == (2 * num + den) \div (2 * den)

\* The annotation stored on the pod when the call began is a timestamp less
\* than cooldownPeriod old
StoredInCooldown ==
    /\ last.before.fmt = "iso"
    /\ now < Ticks(last.before.secs + cooldown_period_seconds)

\* The annotation the call read is a timestamp less than cooldownPeriod old
SeenInCooldown ==
    /\ last.seen.fmt = "iso"
    /\ now < Ticks(last.seen.secs + cooldown_period_seconds)

\* round(max(usage * scaleDownUsageMultiplier, minRequestMemoryMiB))
ScaleDownValue ==
    PyRound(Max(Usage.n * scale_down_usage_multiplier,
                min_request_memory * Tenths * Usage.d),
            Tenths * Usage.d)

\* changeFraction >= scaleDownMinDiff for the value above
ChangeReachesMinDiff ==
    (Request - ScaleDownValue) * Tenths >= scale_down_min_diff * Request

-----------------------------------------------------------------------------
\* C1: a container with request > 0 and usage / request >= scaleUpThreshold is
\* sent a resize to round(max(usage * scaleUpUsageMultiplier, request *
\* scaleUpMinGrowth)); request 100 and usage 85 give 120.
C1_ScaleUpValue ==
    (Evaluated /\ AtScaleUp) =>
        /\ last.decision.kind = "up"
        /\ SentValue(RoundNearest(
               Max(Usage.n * scale_up_usage_multiplier,
                   Request * scale_up_min_growth * Usage.d),
               Tenths * Usage.d))
        /\ (Request = 100 /\ Usage = [n |-> 85, d |-> 1] => SentValue(120))

C1_Witness ==
    /\ last.decision.kind = "up"
    /\ Request = 100
    /\ Usage = [n |-> 85, d |-> 1]
    /\ last.patch_ok
    /\ pod_spec[last.key].request = 120

\* C2 as stated: on the scale-down side, while the annotation stored on the pod
\* is a well-formed timestamp less than cooldownPeriod old, no resize is sent;
\* once it is that old, the scale-down is sent (when the change is big enough).
C2_Original ==
    (Evaluated /\ AtScaleDown /\ last.before.fmt = "iso") =>
        IF StoredInCooldown THEN SentForLast = {}
        ELSE (ChangeReachesMinDiff => SentValue(ScaleDownValue))

\* C2, amended: the same of the annotation the controller read in that pass
\* (the read succeeded): in cooldown nothing is sent, after it the scale-down
\* is sent when its change fraction reaches scaleDownMinDiff; request 200 and
\* usage 0 give 100.
C2_CooldownGate ==
    (Evaluated /\ AtScaleDown /\ last.seen.fmt = "iso") =>
        IF SeenInCooldown
        THEN SentForLast = {} /\ last.decision.kind = "cooldown"
        ELSE /\ ChangeReachesMinDiff => SentValue(ScaleDownValue)
             /\ (Request = 200 /\ Usage.n = 0) => SentValue(100)

C2_Witness ==
    /\ last.decision.kind = "cooldown"
    /\ last.seen = Timestamp(30)
    /\ Request = 200
    /\ Usage.n = 0
    /\ SentForLast = {}

\* C3: a scale-down is sent only with changeFraction >= scaleDownMinDiff for
\* newValue = round(max(usage * scaleDownUsageMultiplier, minRequestMemoryMiB)),
\* and then for that value; otherwise nothing is sent; request 100 and usage
\* 25 give newValue 100 and nothing sent.
C3_MinDiff ==
    (Evaluated /\ AtScaleDown /\ last.decision.kind # "cooldown") =>
        /\ IF ChangeReachesMinDiff
           THEN last.decision.kind = "down" /\ SentValue(ScaleDownValue)
           ELSE last.decision.kind = "small" /\ SentForLast = {}
        /\ (Request = 100 /\ Usage = [n |-> 25, d |-> 1]) =>
               (ScaleDownValue = 100 /\ SentForLast = {})

C3_Witness ==
    /\ last.decision.kind = "small"
    /\ Request = 120
    /\ Usage = [n |-> 25, d |-> 1]
    /\ ScaleDownValue = 100
    /\ SentForLast = {}

\* C4: at usage / request >= scaleUpThreshold the scale-up is sent in the same
\* pass whatever the annotation of the pod holds, and the annotation is not read.
C4_NoCooldownOnScaleUp ==
    (Evaluated /\ AtScaleUp) =>
        /\ ~last.decision.read
        /\ last.seen = NoAnnotation
        /\ Cardinality(SentForLast) = 1
        /\ last.decision.kind = "up"

C4_Witness ==
    /\ last.decision.kind = "up"
    /\ StoredInCooldown
    /\ last.before.secs = 30
    /\ Cardinality(SentForLast) = 1
    /\ last.patch_ok

\* C5: no resize is ever sent for a container whose resolved request is <= 0.
C5_NoPatchWithoutRequest ==
    Evaluated =>
        /\ (Request <= 0 => SentForLast = {} /\ last.decision.kind = "skip")
        /\ (SentForLast # {} => Request > 0)

C5_Witness ==
    /\ last.key = KWeb
    /\ Request = 0
    /\ Usage = [n |-> 100, d |-> 1]
    /\ env.KUBE_STATE_METRICS_URL
    /\ tick.sent = <<>>
    /\ pod_spec[KWeb] = ContainerSpec(200, 200)

\* C6: when a pass is over, every container of the usage document whose own
\* quantities parse has been evaluated, whatever happened to the others.
C6_Isolation ==
    (pc = "reconciling" /\ queue = <<>> /\ tick.observed # {}) =>
        (tick.observed \ tick.unparseable) \subseteq tick.evaluated

\* C7: however a pass ended (normally, without data, with an exception), the
\* loop comes back to idle, and from idle the next pass starts: the loop is
\* idle again and again and reconciling again and again, in every run.
C7_NoTerminalState ==
    /\ []<>(pc = "idle")
    /\ []<>(pc = "reconciling")

C7_Witness ==
    /\ pc = "idle"
    /\ tick.result = "exception"
    /\ passes = 2

\* C8 as stated: after a successful resource patch the annotation of the pod is
\* the time of the resize, after a failed one it is what it was.
C8_Original ==
    Evaluated =>
        annotations[PodOf(last.key)] =
            IF last.patch_ok THEN Timestamp(now \div TicksPerSecond)
            ELSE last.before

\* C8, amended: after a successful resource patch whose annotation patch
\* succeeded too, the annotation is the time of the resize in whole seconds;
\* in every other case (no patch, a failed resource patch, a failed annotation
\* patch) it is what it was.
C8_AnnotationWritten ==
    Evaluated =>
        annotations[PodOf(last.key)] =
            IF last.patch_ok /\ last.annot_ok
            THEN Timestamp(now \div TicksPerSecond)
            ELSE last.before

C8_Witness ==
    /\ last.patch_ok
    /\ last.annot_ok
    /\ now = Ticks(30) + 1
    /\ last.before = Timestamp(0)
    /\ annotations[PodOf(last.key)] = Timestamp(30)

\* C9: within one pass at most one resource patch is sent for a container, be it
\* accepted or not, and for no container that was not evaluated in the pass.
C9_OncePerPass ==
    /\ \A i, j \in DOMAIN tick.sent :
         tick.sent[i].key = tick.sent[j].key => i = j
    /\ \A i \in DOMAIN tick.sent : tick.sent[i].key \in tick.evaluated
    /\ Len(tick.sent) <= Cardinality(tick.evaluated)

C9_Witness ==
    /\ pc = "reconciling"
    /\ queue = <<>>
    /\ Len(tick.sent) = 2
    /\ ~tick.sent[1].ok
    /\ tick.sent[2].ok
    /\ passes = 2

\* C10: on the scale-down side, an annotation that is absent, could not be read
\* or is no timestamp does not stop the decision: it goes on to the change
\* fraction test in the same pass.
C10_NoTimestampNoCooldown ==
    (Evaluated /\ AtScaleDown /\ last.seen.fmt # "iso") =>
        /\ last.decision.read
        /\ last.decision.kind \in {"down", "small"}
        /\ last.decision.kind = "down" <=> ChangeReachesMinDiff
        /\ ChangeReachesMinDiff => SentValue(ScaleDownValue)

C10_Witness ==
    /\ last.decision.kind = "down"
    /\ last.before = Malformed
    /\ last.seen = Malformed
    /\ SentValue(100)

-----------------------------------------------------------------------------
\* usage / request strictly between scaleDownThreshold and scaleUpThreshold
InDeadZone ==
    /\ Request > 0
    /\ Usage.n * Tenths < scale_up_threshold * Request * Usage.d
    /\ Usage.n * Tenths > scale_down_threshold * Request * Usage.d

\* The latest call met one of the policy-skip conditions
PolicySkip ==
    \/ Request <= 0
    \/ InDeadZone
    \/ AtScaleDown /\ (SeenInCooldown \/ ~ChangeReachesMinDiff)

\* A step is one call of _evaluate_and_scale
EvaluationStep == pc = "reconciling" /\ pc' = "reconciling"

C12_LimitEqualsRequest ==
    /\ \A i \in DOMAIN tick.sent :
           tick.sent[i].body.limits = tick.sent[i].body.requests
    /\ (Evaluated /\ last.patch_ok) =>
           /\ pod_spec[last.key].request = last.decision.value
           /\ pod_spec[last.key].limit = last.decision.value

C12_Witness ==
    /\ last.key = KApp
    /\ last.patch_ok
    /\ last.decision.kind = "up"
    /\ Request = 100
    /\ Usage = [n |-> 80, d |-> 1]
    /\ pod_spec[KApp] = ContainerSpec(120, 120)

\* C13: every value sent by a scale-down is round(max(usage *
\* scaleDownUsageMultiplier, minRequestMemoryMiB)) and so at least
\* minRequestMemoryMiB (100).
C13_ScaleDownFloor ==
    (Evaluated /\ last.decision.kind = "down") =>
        /\ SentValue(ScaleDownValue)
        /\ \A i \in SentForLast :
               tick.sent[i].body.requests.mant >= min_request_memory

C13_Witness ==
    /\ last.decision.kind = "down"
    /\ last.key = KSide
    /\ Usage.n = 0
    /\ Request = 200
    /\ last.patch_ok
    /\ pod_spec[KSide] = ContainerSpec(100, 100)

\* C14: under constant usage no container has a scale-up and a scale-down, in
\* either order; the value a scale-up asks for leaves usage / value above
\* scaleDownThreshold and the value a scale-down asks for leaves it below
\* scaleUpThreshold.
C14_NoOscillation ==
    /\ \A i, j \in DOMAIN steady.resized :
           steady.resized[i].key = steady.resized[j].key =>
               steady.resized[i].kind = steady.resized[j].kind
    /\ (Evaluated /\ last.decision.kind = "up") =>
           Usage.n * Tenths > scale_down_threshold * last.decision.value * Usage.d
    /\ (Evaluated /\ last.decision.kind = "down") =>
           Usage.n * Tenths < scale_up_threshold * last.decision.value * Usage.d

C14_Witness ==
    /\ Len(steady.resized) = 1
    /\ steady.resized[1].kind = "down"
    /\ steady.resized[1].ok
    /\ steady.resized[1].value = 250
    /\ passes = 2
    /\ Request = 250
    /\ Usage = [n |-> 100, d |-> 1]
    /\ last.decision.kind = "none"

-----------------------------------------------------------------------------
\* The lookup applied: what was asked and what came back
LookedUp == probe.op = "lookup" /\ probe.done
ExactPresent == \E k \in DOMAIN probe.state_data :
                    probe.state_data[k].key = probe.rsrc_key
Parts == Split(probe.rsrc_key.pod, "-")
Base(i) == Join(SubSeq(Parts, 1, i), "-")

\* The declared keys whose values came back
MatchedKeys ==
    {e.key : e \in {x \in Range(probe.state_data) : x.decl = probe.matched.decl}}

\* The places of state_data with the namespace and container asked for and a
\* pod name that starts with the characters of Base(i)
Candidates(i) ==
    {k \in DOMAIN probe.state_data :
        /\ probe.state_data[k].key.namespace = probe.rsrc_key.namespace
        /\ probe.state_data[k].key.container = probe.rsrc_key.container
        /\ StartsWith(probe.state_data[k].key.pod, Base(i))}

\* C15: a declaration found by the fallback has the namespace and container
\* asked for and a pod name that starts with base + "-" for a prefix base of
\* the usage pod name.
C15_DashRequired ==
    (LookedUp /\ ~ExactPresent /\ probe.matched.found) =>
        \A key \in MatchedKeys :
            /\ key.namespace = probe.rsrc_key.namespace
            /\ key.container = probe.rsrc_key.container
            /\ \E i \in 1..(Len(Parts) - 1) :
                   StartsWith(key.pod, Base(i) \o <<"-">>)

\* C16: the exact key is used when it is declared; otherwise the longest
\* prefix of the usage pod name that has a candidate decides, and the first
\* candidate for it in the order of the declarations is taken; without any
\* candidate nothing is found.  web-abc123 is found for web-abc123-xyz987
\* even when web-zzz, a candidate of the prefix web only, is declared first.
C16_LookupOrder ==
    LookedUp =>
        /\ ExactPresent =>
               /\ probe.matched.found
               /\ MatchedKeys = {probe.rsrc_key}
        /\ ~ExactPresent =>
               LET lengths == {i \in 1..(Len(Parts) - 1) : Candidates(i) # {}}
               IN  IF lengths = {} THEN ~probe.matched.found
                   ELSE LET best == CHOOSE i \in lengths :
                                        \A j \in lengths : j <= i
                            first == CHOOSE k \in Candidates(best) :
                                         \A m \in Candidates(best) : k <= m
                        IN  /\ probe.matched.found
                            /\ MatchedKeys = {probe.state_data[first].key}
        /\ (probe.rsrc_key = KWeb
            /\ probe.state_data = <<DeclOf(3), DeclOf(1)>>) =>
               MatchedKeys = {KDecl}

C16_Witness ==
    /\ LookedUp
    /\ probe.rsrc_key = KWeb
    /\ probe.state_data = <<DeclOf(3), DeclOf(1)>>
    /\ probe.matched.found
    /\ probe.matched.decl.requests_mem_mib = 100

\* C17: parsing a cpu or memory usage string never raises; the result is a
\* number, 0 for a string that cannot be parsed.
C17_ParsingTotal ==
    (probe.op \in {"cpu", "memory"} /\ probe.done) =>
        /\ ~probe.parsed.raised
        /\ probe.quantity.kind = "text" => probe.parsed.value.n = 0

\* A usage fetch that failed: no URL, a request error or non-2xx status, or a
\* body that is no JSON
FetchFailed == tick.fetch \in {"unset", "error", "badjson"}

\* C18: a pass whose usage fetch failed has nothing to visit, evaluates no
\* container, sends no patch and changes no resource spec and no annotation;
\* its next step is back to idle, where the next pass can start.
C18_FetchFailureNoData ==
    [][/\ (pc' = "reconciling" /\ FetchFailed') =>
             /\ queue' = <<>>
             /\ tick'.evaluated = {}
             /\ tick'.sent = <<>>
             /\ pod_spec' = pod_spec
             /\ annotations' = annotations
       /\ (pc = "reconciling" /\ FetchFailed) =>
             /\ pc' = "idle"
             /\ pod_spec' = pod_spec
             /\ annotations' = annotations]_vars

C18_Witness ==
    /\ pc = "reconciling"
    /\ passes = 2
    /\ tick.fetch = "badjson"
    /\ tick.result = "exception"
    /\ tick.sent = <<>>
    /\ pod_spec[KApp] = ContainerSpec(120, 120)

\* The resize this step applies was applied before: the latest accepted
\* resize of the container asked for the same value
AppliedBefore ==
    \E i \in DOMAIN steady.resized :
        /\ steady.resized[i].ok
        /\ steady.resized[i].key = last'.key
        /\ steady.resized[i].value = last'.decision.value
        /\ \A j \in DOMAIN steady.resized :
               (j > i /\ steady.resized[j].key = last'.key) =>
                   ~steady.resized[j].ok

\* C19: when an accepted resource patch repeats the latest accepted one of
\* the container (same pod, container and value), every resource spec is
\* what it was, request and limit of the container are that value, and no
\* annotation but that pod's differs.
C19_Idempotent ==
    [][(EvaluationStep /\ last'.patch_ok /\ AppliedBefore) =>
           /\ pod_spec' = pod_spec
           /\ pod_spec'[last'.key] =
                  ContainerSpec(last'.decision.value, last'.decision.value)
           /\ \A p \in ClusterPods \ {PodOf(last'.key)} :
                  annotations'[p] = annotations[p]]_vars

C19_Witness ==
    /\ Len(steady.resized) = 2
    /\ steady.resized[1].ok
    /\ steady.resized[2].ok
    /\ steady.resized[1].value = steady.resized[2].value
    /\ pod_spec[KApp] = ContainerSpec(1, 1)
    /\ last.before = Timestamp(0)
    /\ annotations[PodOf(KApp)] = Timestamp(30)

\* C20: the memory string of a payload is the value rounded to the nearest
\* whole MiB, followed by "Mi".
C20_FormatRounds ==
    (probe.op = "format" /\ probe.done) =>
        /\ probe.formatted.suffix = "Mi"
        /\ probe.formatted.kind = "int"
        /\ 2 * (probe.formatted.mant * probe.value.d - probe.value.n)
               <= probe.value.d
        /\ 2 * (probe.value.n - probe.formatted.mant * probe.value.d)
               <= probe.value.d

\* The field a matching line sets, and the value it stores there
FieldOf(line) ==
    (IF line.family = "kube_pod_container_resource_requests"
     THEN "requests_" ELSE "limits_")
    \o (IF line.resource = "cpu" THEN "cpu_cores" ELSE "mem_mib")
Stored(line) ==
    IF line.resource = "cpu" THEN line.val ELSE line.val \div MiBBytes

\* The positions of the text whose line sets that field of that key
LinesFor(text, key, field) ==
    {k \in DOMAIN text :
        Matches(text[k]) /\ text[k].key = key /\ FieldOf(text[k]) = field}

\* The dict holds one entry for every key of a matching line and no other;
\* a field no line set is 0, a field some line set holds that line's value
Accumulated(text, data) ==
    /\ {data[i].key : i \in DOMAIN data}
           = {text[k].key : k \in {j \in DOMAIN text : Matches(text[j])}}
    /\ \A i, j \in DOMAIN data : data[i].key = data[j].key => i = j
    /\ \A i \in DOMAIN data : \A field \in DOMAIN ZeroDecl :
          IF LinesFor(text, data[i].key, field) = {}
          THEN data[i].decl[field] = 0
          ELSE \E k \in LinesFor(text, data[i].key, field) :
                  data[i].decl[field] = Stored(text[k])

\* C21: parsing an exposition text, whatever the text, returns a dict in which
\* every key of a matching line has exactly the fields of its matching lines
\* set (memory in MiB, cpu as given) and every other field 0; comment lines,
\* blank lines and lines of other families change nothing.
C21_Accumulates ==
    (probe.op = "exposition" /\ probe.done) =>
        /\ ~probe.declared.raised
        /\ Accumulated(probe.text, probe.declared.data)

\* The same for the texts whose matching lines all carry a float literal
C21_AccumulatesLiterals ==
    (/\ probe.op = "exposition"
     /\ probe.done
     /\ \A k \in DOMAIN probe.text : probe.text[k].literal) =>
        /\ ~probe.declared.raised
        /\ Accumulated(probe.text, probe.declared.data)

\* C22: a memory quantity with an integer mantissa v converts by its suffix:
\* Ki and K and k give v / 1024 MiB, Mi and M give v, Gi and G give v * 1024, and
\* no suffix gives v / 1048576.
C22_SuffixTable ==
    (/\ probe.op = "memory"
     /\ probe.done
     /\ probe.quantity.kind = "int"
     /\ probe.quantity.suffix \in {"Ki", "Mi", "Gi", "K", "k", "M", "G", ""}) =>
        LET v == probe.quantity.mant
            s == probe.quantity.suffix
            r == probe.parsed.value
        IN  /\ ~probe.parsed.raised
            /\ s \in {"Ki", "K", "k"} => r.n * 1024 = v * r.d
            /\ s \in {"Mi", "M"} => r.n = v * r.d
            /\ s \in {"Gi", "G"} => r.n = v * 1024 * r.d
            /\ s = "" => r.n * MiBBytes = v * r.d

C22_Witness ==
    /\ probe.op = "memory"
    /\ probe.done
    /\ probe.quantity = Q(2048, "Ki")
    /\ probe.parsed = Value(2, 1)

\* C24 as stated: the value a scale-up patch asks for is strictly greater than
\* the current request, for every request > 0 and every usage at or above the
\* scale-up threshold, small requests included.
C24_ScaleUpGrows ==
    (Evaluated /\ AtScaleUp /\ last.decision.kind = "up") =>
        /\ SentValue(last.decision.value)
        /\ last.decision.value > Request

\* C25: the value a scale-down patch asks for is at least the usage observed in
\* the pass and at most (1 - scaleDownMinDiff) times the current request.
C25_ScaleDownBounds ==
    (Evaluated /\ last.decision.kind = "down") =>
        /\ SentValue(last.decision.value)
        /\ last.decision.value * Usage.d >= Usage.n
        /\ last.decision.value * Tenths
               <= (Tenths - scale_down_min_diff) * Request

C25_Witness ==
    /\ Evaluated
    /\ last.decision.kind = "down"
    /\ last.patch_ok
    /\ Request = 500
    /\ Usage = [n |-> 100, d |-> 1]
    /\ SentValue(250)
    /\ pod_spec[KApp] = ContainerSpec(250, 250)

\* Patch j of the record is an accepted scale-down, and patch i is the accepted
\* resize of a container of the same pod that came last before it
PreviousResize(i, j) ==
    /\ i < j
    /\ steady.resized[i].ok
    /\ steady.resized[j].ok
    /\ steady.resized[j].kind = "down"
    /\ PodOf(steady.resized[i].key) = PodOf(steady.resized[j].key)
    /\ \A k \in (i + 1)..(j - 1) :
          steady.resized[k].ok =>
              PodOf(steady.resized[k].key) # PodOf(steady.resized[j].key)

\* C23 as stated: whichever requests fail, an accepted scale-down patch is sent
\* no less than cooldownPeriod after the accepted resize of the same pod before
\* it.
C23_Original ==
    \A i, j \in DOMAIN steady.resized :
        PreviousResize(i, j) =>
            steady.resized[j].at - steady.resized[i].at
                >= Ticks(cooldown_period_seconds)

\* C23, amended: when the annotation of the resize before it was written and
\* the scale-down read the annotation, an accepted scale-down patch is sent no
\* less than cooldownPeriod after the time of the resize before it taken in
\* whole seconds, which is what the annotation holds; the annotation it read is
\* that time.
C23_SpacedFromAnnotation ==
    \A i, j \in DOMAIN steady.resized :
        (/\ PreviousResize(i, j)
         /\ steady.resized[i].annot_ok
         /\ steady.resized[j].seen # NoAnnotation) =>
            /\ steady.resized[j].seen = strftime(steady.resized[i].at)
            /\ steady.resized[j].at
                   >= Ticks(steady.resized[i].at \div TicksPerSecond
                            + cooldown_period_seconds)

\* An accepted scale-down less than cooldownPeriod after an accepted scale-up
\* of the other container of the pod whose annotation had been written and was
\* read: the annotation holds the whole second before the scale-up
C23_Witness ==
    /\ Len(steady.resized) = 2
    /\ PreviousResize(1, 2)
    /\ passes = 2
    /\ steady.resized[1].kind = "up"
    /\ steady.resized[1].key = KApp
    /\ steady.resized[1].annot_ok
    /\ steady.resized[1].at = 1
    /\ steady.resized[2].key = KSide
    /\ steady.resized[2].seen = Timestamp(0)
    /\ steady.resized[2].at = Ticks(cooldown_period_seconds)
    /\ pod_spec[KSide] = ContainerSpec(100, 100)

\* C28 as stated: whenever the monitor has written memory_load_mb, the value it
\* wrote is no larger than the value it replaced, so a target set by
\* update_resources is never replaced with a larger one.
C28_MonitorOnlyLowers ==
    app.writer = "monitor" => app.memory_load_mb <= app.replaced

\* C26 as stated: under constant usage, with every request to the API server
\* answered and every accepted patch reported in the next pass, from some pass
\* on no patch is sent, whatever the request > 0 and the usage at the start.
C26_Converges == <>[](tick.sent = <<>>)

\* The application container is evaluated and does not qualify for a
\* scale-down; a scale-down patch is sent for it
AppDisqualified ==
    /\ Evaluated
    /\ last.key = KApp
    /\ ~(AtScaleDown /\ ChangeReachesMinDiff)
AppScaledDown ==
    \E i \in DOMAIN tick.sent :
        tick.sent[i].key = KApp /\ tick.sent[i].body.requests = Q(100, "Mi")

\* C27 as stated: with every request to the API server answered, a container
\* that qualifies for a scale-down in every pass is eventually sent one, also
\* while the other container of its pod is resized and rewrites the annotation
\* of the pod: either it fails to qualify in some pass, or the patch is sent.
C27_NotStarved == <>(AppDisqualified \/ AppScaledDown)

=============================================================================
